---- MODULE Spec2Model ----
(***************************************************************************)
(* A model of web3-helpers' common/node.py and common/etherscan.py: the    *)
(* on-disk ABI store, contract resolution (get_contract), the event query  *)
(* (get_events), transaction decoding and the curated holdings aggregator. *)
(*                                                                         *)
(* Python values are represented as sequences of strings: a text is the    *)
(* sequence of its tokens, "" is <<>>, and None is the one-token sequence  *)
(* None below, which no text equals.  The explorer, the RPC node and the   *)
(* contract calls are the environment: each answer is drawn with \E.       *)
(***************************************************************************)
EXTENDS Integers, Sequences, FiniteSets, TLC

VARIABLES
    files,      \* the ABI store: checksummed address -> text of <address>.abi, or NoFile
    ret,        \* SpecStore: the outcome of the last ABI-store API call
    pc,         \* SpecConc: each caller's position inside get_contract
    local,      \* SpecConc: each caller's contract_abi local and unflushed write buffer
    req,        \* SpecQuery: the call being made (operation and arguments)
    qres,       \* SpecQuery: the outcome of that call
    agg         \* SpecAgg: the running get_curated_nfts_holdings call

vars == <<files, ret, pc, local, req, qres, agg>>

(***************************************************************************)
(* Bounds                                                                  *)
(***************************************************************************)
NumContracts == 2      \* distinct contract addresses
NumCallers == 2        \* concurrent callers of get_contract
MaxHead == 3           \* largest chain head block number
MaxBlock == 2          \* largest |start_block| a caller passes
MaxTokenId == 2        \* largest token id a caller passes
MaxTopics == 2         \* longest topics list a caller passes
MaxSupply == 2         \* largest total_supply in curated.json
MaxBalance == 2        \* largest balance a contract call reports

(***************************************************************************)
(* Values                                                                  *)
(***************************************************************************)
None == <<"None">>
NoFile == <<"NoFile">>

\* An optional int: Python None (or a call that raised), or an int.
NoInt == [some |-> FALSE, v |-> 0]
SomeInt(n) == [some |-> TRUE, v |-> n]

\* Python truthiness of a str-or-None value: `if x` / `not x`.
Truthy(v) == v # None /\ v # <<>>

Chains == {"eth", "polygon"}
DefaultChain == "eth"

ContractIds == 1..NumContracts
Forms == {"lower", "checksum"}
Addresses == [id : ContractIds, form : Forms]

\* toChecksumAddress: every spelling of an address maps to the one EIP-55 form.
ToChecksumAddress(address) == [id |-> address.id, form |-> "checksum"]

CkAddresses == {ToChecksumAddress(a) : a \in Addresses}

\* One use of a web3 client, the explorer or the RPC node, with the chain it targets.
Call(kind, chain, op) == [kind |-> kind, chain |-> chain, op |-> op]

\* checksum_address(address, chain): builds a client for `chain`, no request is sent.
checksum_address(address, chain) ==
    [value |-> ToChecksumAddress(address),
     net |-> <<Call("client", chain, "toChecksumAddress")>>]

\* ABI texts as the explorer serves them, and what it serves instead of one.
AbiA == <<"[", "Transfer", "transfer", "]">>
AbiB == <<"[", "Approval", "mint", "]">>
AbiDup == <<"[", "Transfer", "Transfer", "]">>
ErrMsg == <<"Contract", "source", "code", "not", "verified">>
ValidAbis == {AbiA, AbiB, AbiDup}
EventNames == {"Transfer", "Approval"}
FunctionNames == {"transfer", "mint"}

\* json.loads: the entries of a bracketed list; TypeError for None, JSONDecodeError
\* for a text that is no JSON document.
json_loads(text) ==
    IF text = None
    THEN [ok |-> FALSE, value |-> <<>>, error |-> "TypeError"]
    ELSE IF /\ Len(text) >= 2
            /\ text[1] = "["
            /\ text[Len(text)] = "]"
            /\ \A i \in 2..(Len(text) - 1) : text[i] \notin {"[", "]"}
         THEN [ok |-> TRUE, value |-> SubSeq(text, 2, Len(text) - 1), error |-> "none"]
         ELSE [ok |-> FALSE, value |-> <<>>, error |-> "JSONDecodeError"]

(***************************************************************************)
(* The ABI store                                                           *)
(***************************************************************************)
isfile(fs, address) == fs[address] # NoFile

fetch_contract_abi(fs, address) ==
    IF isfile(fs, address) THEN fs[address] ELSE None

\* The store with open(path, "w") and no existence test.
store_overwrite(fs, address, contract_abi) ==
    IF contract_abi = None
    THEN [files |-> [fs EXCEPT ![address] = <<>>], raised |-> "TypeError"]
    ELSE [files |-> [fs EXCEPT ![address] = contract_abi], raised |-> "none"]

\* open(path, "x") creates the file; f.write(None) then raises and leaves it empty.
store_contract_abi(fs, address, contract_abi) ==
    IF ~isfile(fs, address)
    THEN IF contract_abi = None
         THEN [files |-> [fs EXCEPT ![address] = <<>>], raised |-> "TypeError"]
         ELSE [files |-> [fs EXCEPT ![address] = contract_abi], raised |-> "none"]
    ELSE [files |-> fs, raised |-> "none"]

\* What requests.get(...).json().get('result') can be, or the request failing.
TransportError == <<"TransportError">>
NotCalled == <<"NotCalled">>
ExplorerResponses == ValidAbis \cup {ErrMsg, None, TransportError}

\* get_contract_abi(address, chain): one explorer request to chain's explorer.
get_contract_abi(address, chain, response) ==
    [value |-> response, net |-> <<Call("explorer", chain, "getabi")>>]

\* get_contract(contract_address, chain): `response` is the explorer's answer, used
\* only when the store has no truthy text for the address.
get_contract(fs, contract_address, chain, response) ==
    LET ck == checksum_address(contract_address, chain)
        cached == fetch_contract_abi(fs, ck.value)
        fetched == get_contract_abi(ck.value, chain, response)
        stored == store_contract_abi(fs, ck.value, fetched.value)
        bind(fs2, text, net, explorer) ==
            LET parsed == json_loads(text)
            IN  [files |-> fs2,
                 outcome |-> IF parsed.ok THEN "ok" ELSE parsed.error,
                 address |-> ck.value,
                 abi |-> parsed.value,
                 explorer |-> explorer,
                 net |-> IF parsed.ok
                         THEN net \o <<Call("client", chain, "eth.contract")>>
                         ELSE net]
        failed(fs2, what, net) ==
            [files |-> fs2, outcome |-> what, address |-> ck.value, abi |-> <<>>,
             explorer |-> response, net |-> net]
    IN  IF Truthy(cached)
        THEN bind(fs, cached, ck.net, NotCalled)
        ELSE IF response = TransportError
             THEN failed(fs, "TransportError", ck.net \o fetched.net)
             ELSE IF stored.raised # "none"
                  THEN failed(stored.files, stored.raised, ck.net \o fetched.net)
                  ELSE bind(stored.files, fetched.value, ck.net \o fetched.net, response)

\* contract_metadata of get_nft_holdings: left out (None), or a dict.
NoMetadata == [given |-> FALSE, symbol |-> "", name |-> ""]
SomeMetadata == [given |-> TRUE, symbol |-> "X", name |-> "Foo"]
NoHolding == [some |-> FALSE, balance |-> 0, symbol |-> "", name |-> "",
              address |-> [id |-> 1, form |-> "checksum"], metadata |-> NoMetadata]

\* get_nft_holdings(wallet_address, contract_address, contract_metadata): `response`
\* is the explorer's answer, `balance` what balanceOf returns (NoInt: the call raises).
get_nft_holdings(fs, wallet_address, contract_address, contract_metadata, response, balance) ==
    LET wallet == checksum_address(wallet_address, DefaultChain)
        ck == checksum_address(contract_address, DefaultChain)
        contract == get_contract(fs, ck.value, DefaultChain, response)
        net1 == wallet.net \o ck.net \o contract.net
        net2 == net1 \o <<Call("rpc", DefaultChain, "balanceOf")>>
        out(outcome, result, net) ==
            [files |-> contract.files, outcome |-> outcome, address |-> ck.value,
             explorer |-> contract.explorer, holding |-> result, net |-> net]
    IN  IF contract.outcome # "ok"
        THEN out(contract.outcome, NoHolding, net1)
        ELSE IF ~contract_metadata.given
        THEN out("Exception", NoHolding, net1)
        ELSE IF ~balance.some
        THEN out("CallError", NoHolding, net2)
        ELSE IF balance.v <= 0
        THEN out("ok", NoHolding, net2)
        ELSE out("ok", [some |-> TRUE, balance |-> balance.v,
                        symbol |-> contract_metadata.symbol,
                        name |-> contract_metadata.name,
                        address |-> ck.value, metadata |-> contract_metadata], net2)

(***************************************************************************)
(* SpecStore: a sequence of ABI-store API calls by one caller              *)
(***************************************************************************)
StoreTexts == ValidAbis \cup {ErrMsg, <<>>, None}

IdleRet == [op |-> "none", address |-> [id |-> 1, form |-> "checksum"],
            text |-> None, existed |-> FALSE, outcome |-> "none",
            value |-> None, explorer |-> NotCalled, holding |-> NoHolding]
IdlePc == [p \in 1..NumCallers |-> "idle"]
IdleLocal == [p \in 1..NumCallers |-> [abi |-> None, buf |-> <<>>]]
IdleReq == [op |-> "none"]
IdleQres == [outcome |-> "none"]
IdleAgg == [status |-> "idle"]

NoFiles == [a \in CkAddresses |-> NoFile]

InitStore ==
    /\ files = NoFiles
    /\ ret = IdleRet
    /\ pc = IdlePc
    /\ local = IdleLocal
    /\ req = IdleReq
    /\ qres = IdleQres
    /\ agg = IdleAgg

\* The explorer's possible answers to a get_contract for `address`: it is asked only
\* when the store has no truthy text for the address.
ResponsesFor(fs, address) ==
    IF Truthy(fetch_contract_abi(fs, ToChecksumAddress(address)))
    THEN {NotCalled}
    ELSE ExplorerResponses

StoreCall ==
    \E a \in CkAddresses, t \in StoreTexts :
        LET r == store_contract_abi(files, a, t)
        IN  /\ files' = r.files
            /\ ret' = [op |-> "store_contract_abi", address |-> a, text |-> t,
                       existed |-> isfile(files, a), outcome |-> r.raised,
                       value |-> None, explorer |-> NotCalled, holding |-> NoHolding]
            /\ UNCHANGED <<pc, local, req, qres, agg>>

FetchCall ==
    \E a \in CkAddresses :
        /\ ret' = [op |-> "fetch_contract_abi", address |-> a, text |-> None,
                   existed |-> isfile(files, a), outcome |-> "none",
                   value |-> fetch_contract_abi(files, a), explorer |-> NotCalled,
                   holding |-> NoHolding]
        /\ UNCHANGED <<files, pc, local, req, qres, agg>>

GetContractCall ==
    \E a \in Addresses, c \in Chains :
      \E resp \in ResponsesFor(files, a) :
        LET r == get_contract(files, a, c, resp)
        IN  /\ files' = r.files
            /\ ret' = [op |-> "get_contract", address |-> r.address, text |-> None,
                       existed |-> isfile(files, r.address), outcome |-> r.outcome,
                       value |-> r.abi, explorer |-> r.explorer, holding |-> NoHolding]
            /\ UNCHANGED <<pc, local, req, qres, agg>>

GetNftHoldingsCall ==
    \E w \in {[id |-> 1, form |-> "lower"]}, a \in Addresses,
       m \in {NoMetadata, SomeMetadata},
       b \in {NoInt} \cup {SomeInt(n) : n \in 0..MaxBalance} :
      \E resp \in ResponsesFor(files, a) :
        LET r == get_nft_holdings(files, w, a, m, resp, b)
        IN  /\ files' = r.files
            /\ ret' = [op |-> "get_nft_holdings", address |-> r.address, text |-> None,
                       existed |-> isfile(files, r.address), outcome |-> r.outcome,
                       value |-> None, explorer |-> r.explorer, holding |-> r.holding]
            /\ UNCHANGED <<pc, local, req, qres, agg>>

NextStore == StoreCall \/ FetchCall \/ GetContractCall \/ GetNftHoldingsCall

SpecStore == InitStore /\ [][NextStore]_vars

\* C1: write-if-absent. A call never changes what fetch_contract_abi returns for an
\* address that already has an entry, and a store_contract_abi(A, abi1) that finds no
\* entry and returns normally makes fetch_contract_abi(A) return abi1.
C1_WriteIfAbsent ==
    [][/\ \A a \in CkAddresses :
            isfile(files, a) =>
                fetch_contract_abi(files', a) = fetch_contract_abi(files, a)
       /\ (ret'.op = "store_contract_abi" /\ ~ret'.existed /\ ret'.outcome = "none")
            => fetch_contract_abi(files', ret'.address) = ret'.text]_vars

\* A second store_contract_abi(A, abi2) after abi1 was stored, with abi2 # abi1.
C1_Witness ==
    /\ ret.op = "store_contract_abi"
    /\ ret.existed
    /\ ret.outcome = "none"
    /\ ret.text \in ValidAbis
    /\ files[ret.address] \in ValidAbis
    /\ files[ret.address] # ret.text

\* C10: a get_contract whose explorer fetch yields no valid ABI (an error message or
\* no result) ends in an error and leaves the store without an entry for the address.
C10_FailedResolveLeavesNoEntry ==
    (ret.op = "get_contract" /\ ret.explorer \in {ErrMsg, None})
        => (ret.outcome # "ok" /\ ~isfile(files, ret.address))

(***************************************************************************)
(* SpecConc: NumCallers callers run get_contract on one uncached address.  *)
(* Each step is one system call or one library call of get_contract; the   *)
(* buffered f.write reaches the file in one or more flushes, the last at   *)
(* the close that ends the `with` block.                                   *)
(***************************************************************************)
Callers == 1..NumCallers
ConcAddress == [id |-> 1, form |-> "lower"]
ConcKey == checksum_address(ConcAddress, DefaultChain).value

InitConc ==
    /\ files = NoFiles
    /\ ret = IdleRet
    /\ pc = [p \in Callers |-> "start"]
    /\ local = IdleLocal
    /\ req = IdleReq
    /\ qres = IdleQres
    /\ agg = IdleAgg

\* line 92-93: contract_abi = fetch_contract_abi(...); if not contract_abi
Lookup(p) ==
    /\ pc[p] = "start"
    /\ LET cached == fetch_contract_abi(files, ConcKey)
       IN  /\ local' = [local EXCEPT ![p].abi = cached]
           /\ pc' = [pc EXCEPT ![p] = IF Truthy(cached) THEN "bind" ELSE "explorer"]
    /\ UNCHANGED <<files, ret, req, qres, agg>>

\* line 95: contract_abi = get_contract_abi(...); the explorer has the ABI
Explorer(p) ==
    /\ pc[p] = "explorer"
    /\ \E resp \in ValidAbis :
        local' = [local EXCEPT ![p].abi = get_contract_abi(ConcKey, DefaultChain, resp).value]
    /\ pc' = [pc EXCEPT ![p] = "store_check"]
    /\ UNCHANGED <<files, ret, req, qres, agg>>

\* line 85: if not os.path.isfile(path)
StoreCheck(p) ==
    /\ pc[p] = "store_check"
    /\ pc' = [pc EXCEPT ![p] = IF isfile(files, ConcKey) THEN "bind" ELSE "store_open"]
    /\ UNCHANGED <<files, ret, local, req, qres, agg>>

\* line 86: open(path, "x") creates the empty file, or raises if it exists by now
StoreOpen(p) ==
    /\ pc[p] = "store_open"
    /\ IF isfile(files, ConcKey)
       THEN /\ pc' = [pc EXCEPT ![p] = "FileExistsError"]
            /\ UNCHANGED <<files, local>>
       ELSE /\ files' = [files EXCEPT ![ConcKey] = <<>>]
            /\ local' = [local EXCEPT ![p].buf = local[p].abi]
            /\ pc' = [pc EXCEPT ![p] = "store_write"]
    /\ UNCHANGED <<ret, req, qres, agg>>

\* line 87: f.write(contract_abi): a full buffer is flushed before the close
StoreFlush(p) ==
    /\ pc[p] = "store_write"
    /\ \E k \in 1..(Len(local[p].buf) - 1) :
        /\ files' = [files EXCEPT ![ConcKey] = @ \o SubSeq(local[p].buf, 1, k)]
        /\ local' = [local EXCEPT ![p].buf = SubSeq(@, k + 1, Len(@))]
    /\ UNCHANGED <<pc, ret, req, qres, agg>>

\* leaving the `with` block: the rest of the buffer is flushed and the file closed
StoreClose(p) ==
    /\ pc[p] = "store_write"
    /\ files' = [files EXCEPT ![ConcKey] = @ \o local[p].buf]
    /\ local' = [local EXCEPT ![p].buf = <<>>]
    /\ pc' = [pc EXCEPT ![p] = "bind"]
    /\ UNCHANGED <<ret, req, qres, agg>>

\* line 98-99: eth.contract(address=..., abi=json.loads(contract_abi))
Bind(p) ==
    /\ pc[p] = "bind"
    /\ pc' = [pc EXCEPT ![p] = IF json_loads(local[p].abi).ok
                                THEN "done"
                                ELSE json_loads(local[p].abi).error]
    /\ UNCHANGED <<files, ret, local, req, qres, agg>>

NextConc ==
    \E p \in Callers :
        \/ Lookup(p)
        \/ Explorer(p)
        \/ StoreCheck(p)
        \/ StoreOpen(p)
        \/ StoreFlush(p)
        \/ StoreClose(p)
        \/ Bind(p)

SpecConc == InitConc /\ [][NextConc]_vars

\* C2: concurrent first access is safe. No caller ends in an error, no caller binds a
\* text other than a complete ABI, and once all callers are done the store holds one
\* complete ABI for the address.
C2_ConcurrentFirstAccessSafe ==
    /\ \A p \in Callers : pc[p] \notin {"FileExistsError", "JSONDecodeError", "TypeError"}
    /\ \A p \in Callers : pc[p] \in {"bind", "done"} => local[p].abi \in ValidAbis
    /\ (\A p \in Callers : pc[p] = "done") => files[ConcKey] \in ValidAbis

(***************************************************************************)
(* SpecQuery: one get_events or decode_contract_transaction call.  Init    *)
(* draws the arguments and the store's starting content; the action makes  *)
(* the call against an environment drawn with \E.                          *)
(***************************************************************************)
\* `if token_id`: None and 0 are falsy.
IntTruthy(x) == x.some /\ x.v # 0

\* A block parameter: an int, the string "latest", or the argument left out.
Latest == [tag |-> "latest", n |-> 0]
Number(n) == [tag |-> "number", n |-> n]
Unspecified == [tag |-> "unspecified", n |-> 0]
\* line 135: end_block="latest"
DefaultEndBlock(end_block) == IF end_block = Unspecified THEN Latest ELSE end_block

\* f"topic{index}"
TopicKey(index) == <<"topic0", "topic1", "topic2", "topic3", "topic4", "topic5">>[index + 1]

TopicValues == {None, <<"0xddf2">>}
RECURSIVE SeqsUpTo(_, _)
SeqsUpTo(S, n) ==
    IF n = 0 THEN {<<>>}
    ELSE LET shorter == SeqsUpTo(S, n - 1)
         IN  shorter \cup {Append(q, x) : q \in {t \in shorter : Len(t) = n - 1}, x \in S}

QueryAddresses == {a \in Addresses : a.id = 1}
QueryKey == ToChecksumAddress(CHOOSE a \in QueryAddresses : TRUE)

\* find_matching_event_abi(abi, event_name): the one event entry of that name.
find_matching_event_abi(abi, event_name) ==
    LET matches == {i \in 1..Len(abi) : abi[i] \in EventNames /\ abi[i] = event_name}
    IN  IF Cardinality(matches) = 1
        THEN [ok |-> TRUE, value |-> event_name]
        ELSE [ok |-> FALSE, value |-> ""]

\* lines 142-149: argument_filters, a dict from key to value.
build_argument_filters(address, token_id, topics) ==
    LET base == "address" :> address
        withToken == IF IntTruthy(token_id)
                     THEN ("tokenId" :> token_id.v) @@ base
                     ELSE base
        set == {i \in 1..Len(topics) : Truthy(topics[i])}
        overrides == [k \in {TopicKey(i - 1) : i \in set} |->
                        topics[CHOOSE i \in set : TopicKey(i - 1) = k]]
    IN  overrides @@ withToken

\* lines 151-153 with the offset subtracted.
resolve_start_block_minus(start_block, latest_block, chain) ==
    IF start_block < 0
    THEN [value |-> latest_block - start_block,
          net |-> <<Call("rpc", chain, "eth_blockNumber")>>]
    ELSE [value |-> start_block, net |-> <<>>]

\* lines 151-153: a negative start_block is an offset from the chain head.
resolve_start_block(start_block, latest_block, chain) ==
    IF start_block < 0
    THEN [value |-> latest_block + start_block,
          net |-> <<Call("rpc", chain, "eth_blockNumber")>>]
    ELSE [value |-> start_block, net |-> <<>>]

\* lines 155-162: construct_event_filter_params(..., fromBlock=, toBlock=).
construct_event_filter_params(address, start_block, end_block) ==
    [address |-> address, fromBlock |-> Number(start_block), toBlock |-> end_block]

NoParams == [address |-> QueryKey, fromBlock |-> Unspecified, toBlock |-> Unspecified]
NoFilters == <<>>
QueryFailed(fs, what, net) ==
    [files |-> fs, outcome |-> what, net |-> net, argument_filters |-> NoFilters,
     params |-> NoParams, events |-> <<>>, decoded |-> ""]

\* get_events(contract_address, event_name, token_id, start_block, end_block, chain,
\* topics); env holds the explorer's answer, the chain head and the logs returned.
get_events(fs, r, env) ==
    LET codec == <<Call("client", r.chain, "codec")>>
        ck == checksum_address(r.contract_address, DefaultChain)
        contract == get_contract(fs, ck.value, DefaultChain, env.response)
        net1 == codec \o ck.net \o contract.net
        event_abi == find_matching_event_abi(contract.abi, r.event_name)
        argument_filters == build_argument_filters(ck.value, r.token_id, r.topics)
        start == resolve_start_block(r.start_block, env.head, r.chain)
        params == construct_event_filter_params(argument_filters["address"], start.value,
                                                DefaultEndBlock(r.end_block))
        net2 == net1 \o start.net \o <<Call("rpc", r.chain, "eth_getLogs")>>
    IN  IF contract.outcome # "ok"
        THEN QueryFailed(contract.files, contract.outcome, net1)
        ELSE IF ~event_abi.ok
             THEN QueryFailed(contract.files, "ValueError", net1)
             ELSE [files |-> contract.files, outcome |-> "ok", net |-> net2,
                   argument_filters |-> argument_filters, params |-> params,
                   events |-> [i \in 1..Len(env.logs) |->
                                 [event |-> event_abi.value, log |-> env.logs[i]]],
                   decoded |-> ""]

\* decode_contract_transaction(transaction_address, chain); env holds the transaction
\* the node returns and the explorer's answer.
decode_contract_transaction(fs, r, env) ==
    LET lookup == <<Call("rpc", r.chain, "eth_getTransactionByHash")>>
        contract == get_contract(fs, env.to, DefaultChain, env.response)
        net == lookup \o contract.net
        known == \E i \in 1..Len(contract.abi) :
                    contract.abi[i] \in FunctionNames /\ contract.abi[i] = env.input
    IN  IF contract.outcome # "ok"
        THEN QueryFailed(contract.files, contract.outcome, net)
        ELSE IF ~known
             THEN QueryFailed(contract.files, "ValueError", net)
             ELSE [files |-> contract.files, outcome |-> "ok", net |-> net,
                   argument_filters |-> NoFilters, params |-> NoParams,
                   events |-> <<>>, decoded |-> env.input]

EventRequests ==
    [op : {"get_events"}, contract_address : QueryAddresses, event_name : EventNames,
     token_id : {NoInt} \cup {SomeInt(n) : n \in 0..MaxTokenId},
     start_block : (-MaxBlock)..MaxBlock,
     end_block : {Unspecified, Latest, Number(MaxBlock)},
     chain : Chains, topics : SeqsUpTo(TopicValues, MaxTopics)]

DecodeRequests ==
    [op : {"decode_contract_transaction"}, contract_address : {QueryKey},
     event_name : {"Transfer"}, token_id : {NoInt}, start_block : {0},
     end_block : {Unspecified}, chain : Chains, topics : {<<>>}]

NoEnv == [response |-> NotCalled, head |-> 0, logs |-> <<>>, to |-> QueryKey, input |-> ""]
IdleQuery == [outcome |-> "none", net |-> <<>>, argument_filters |-> NoFilters,
              params |-> NoParams, events |-> <<>>, decoded |-> "", env |-> NoEnv]

InitQuery ==
    /\ files \in {NoFiles, [NoFiles EXCEPT ![QueryKey] = AbiA]}
    /\ ret = IdleRet
    /\ pc = IdlePc
    /\ local = IdleLocal
    /\ req \in EventRequests \cup DecodeRequests
    /\ qres = IdleQuery
    /\ agg = IdleAgg

GetEvents ==
    /\ req.op = "get_events"
    /\ qres.outcome = "none"
    /\ \E response \in ExplorerResponses, head \in 0..MaxHead, logs \in {<<>>, <<7, 8>>} :
        LET env == [response |-> response, head |-> head, logs |-> logs,
                    to |-> QueryKey, input |-> ""]
            r == get_events(files, req, env)
        IN  /\ files' = r.files
            /\ qres' = [outcome |-> r.outcome, net |-> r.net,
                        argument_filters |-> r.argument_filters, params |-> r.params,
                        events |-> r.events, decoded |-> r.decoded, env |-> env]
    /\ UNCHANGED <<ret, pc, local, req, agg>>

DecodeContractTransaction ==
    /\ req.op = "decode_contract_transaction"
    /\ qres.outcome = "none"
    /\ \E response \in ExplorerResponses, to \in QueryAddresses, input \in FunctionNames :
        LET env == [response |-> response, head |-> 0, logs |-> <<>>,
                    to |-> to, input |-> input]
            r == decode_contract_transaction(files, req, env)
        IN  /\ files' = r.files
            /\ qres' = [outcome |-> r.outcome, net |-> r.net,
                        argument_filters |-> r.argument_filters, params |-> r.params,
                        events |-> r.events, decoded |-> r.decoded, env |-> env]
    /\ UNCHANGED <<ret, pc, local, req, agg>>

NextQuery == GetEvents \/ DecodeContractTransaction

SpecQuery == InitQuery /\ [][NextQuery]_vars

HasCall(net, call) == \E i \in 1..Len(net) : net[i] = call
CountCalls(net, op) == Cardinality({i \in 1..Len(net) : net[i].op = op})

\* C7: block-range resolution. With start_block = -N < 0 and chain head H of the
\* queried chain, the one log query has fromBlock = H - N; with start_block >= 0 it
\* has fromBlock = start_block and the head is not asked for; toBlock is end_block,
\* "latest" when left out.
C7_BlockRange ==
    (req.op = "get_events" /\ qres.outcome = "ok") =>
        /\ CountCalls(qres.net, "eth_getLogs") = 1
        /\ HasCall(qres.net, Call("rpc", req.chain, "eth_getLogs"))
        /\ req.start_block < 0 =>
             /\ qres.params.fromBlock = Number(qres.env.head - (0 - req.start_block))
             /\ HasCall(qres.net, Call("rpc", req.chain, "eth_blockNumber"))
        /\ req.start_block >= 0 =>
             /\ qres.params.fromBlock = Number(req.start_block)
             /\ CountCalls(qres.net, "eth_blockNumber") = 0
        /\ qres.params.toBlock =
             (IF req.end_block = Unspecified THEN Latest ELSE req.end_block)

\* A query over the last N blocks of a chain whose head is above N was issued.
C7_Witness ==
    /\ req.op = "get_events"
    /\ qres.outcome = "ok"
    /\ req.start_block < 0
    /\ qres.env.head > 0 - req.start_block
    /\ qres.params.fromBlock.n > 0
    /\ req.end_block = Unspecified

\* C8: the argument-filter map holds address, tokenId for every token_id the caller
\* supplies (0 included), topic<i> for every position with a topic override, and
\* nothing else.
C8_ArgumentFilters ==
    (req.op = "get_events" /\ qres.outcome = "ok") =>
        LET af == qres.argument_filters
            supplied == {i \in 1..Len(req.topics) : req.topics[i] # None}
        IN  /\ "address" \in DOMAIN af
            /\ af["address"] = ToChecksumAddress(req.contract_address)
            /\ req.token_id.some =>
                 ("tokenId" \in DOMAIN af /\ af["tokenId"] = req.token_id.v)
            /\ \A i \in supplied :
                 (TopicKey(i - 1) \in DOMAIN af /\ af[TopicKey(i - 1)] = req.topics[i])
            /\ DOMAIN af \subseteq
                 ({"address"} \cup (IF req.token_id.some THEN {"tokenId"} ELSE {})
                              \cup {TopicKey(i - 1) : i \in supplied})

\* C9: every client, RPC and explorer use made by a call with chain = c targets c.
C9_ChainConsistency ==
    qres.outcome # "none" =>
        \A i \in 1..Len(qres.net) : qres.net[i].chain = req.chain

(***************************************************************************)
(* SpecAgg: one get_curated_nfts_holdings call.  Init draws the arguments, *)
(* curated.json and the store's starting content; AggStart is the code     *)
(* before the loop, AggStep one pass of the loop body, AggReturn the       *)
(* return.  The explorer's and the contracts' answers are drawn with \E.   *)
(***************************************************************************)
\* list.count(x)
count(list, x) == Cardinality({i \in 1..Len(list) : list[i] = x})
\* list(range(n))
range(n) == [i \in 1..n |-> i - 1]
\* [x] * n
repeat(x, n) == [i \in 1..n |-> x]

\* line 206: 'fetch_batch' in contract_metadata and contract_metadata['fetch_batch'] is True
is_fetch_batch(contract_metadata) == contract_metadata.fetch_batch = "true"

\* line 215: balanceOfBatch(total, token_ids).call().count(1)
batch_balance(result) == count(result, 1)

\* line 222 with the test admitting a zero balance.
produces_holding_zero(balance) == balance >= 0

\* line 222: if balance > 0
produces_holding(balance) == balance > 0

\* lines 223-224: {**contract_metadata, "balance", "symbol", "name", "address"}
holding(contract_metadata, balance, contract_address) ==
    [metadata |-> contract_metadata, balance |-> balance,
     symbol |-> contract_metadata.symbol, name |-> contract_metadata.name,
     address |-> contract_address]

NoBatch == [called |-> FALSE, owners |-> <<>>, token_ids |-> <<>>, result |-> <<>>]

\* lines 201-224, one pass of the loop. env.response is the explorer's answer,
\* env.balance what balanceOf returns (NoInt: the call raises), env.batch what
\* balanceOfBatch returns (ok = FALSE: the call raises).
loop_body(fs, wallet_address, include_batch, contract_metadata, env) ==
    LET ck == checksum_address(contract_metadata.key, DefaultChain)
        contract == get_contract(fs, ck.value, DefaultChain, env.response)
        net1 == ck.net \o contract.net
        total_supply == contract_metadata.total_supply
        total == repeat(wallet_address, total_supply.v)
        token_ids == range(total_supply.v)
        out(status, skipped, caught, balance, net, batch) ==
            [files |-> contract.files, status |-> status, skipped |-> skipped,
             caught |-> caught, balance |-> balance, net |-> net, batch |-> batch,
             resolved |-> contract.outcome, address |-> ck.value]
    IN  IF contract.outcome # "ok"
        THEN out("raised", FALSE, FALSE, NoInt, net1, NoBatch)
        ELSE IF is_fetch_batch(contract_metadata)
        THEN IF ~include_batch
             THEN out("continue", TRUE, FALSE, NoInt, net1, NoBatch)
             ELSE IF ~total_supply.some
             THEN out("continue", FALSE, TRUE, SomeInt(0), net1, NoBatch)
             ELSE IF ~env.batch.ok
             THEN out("continue", FALSE, TRUE, SomeInt(0),
                      net1 \o <<Call("rpc", DefaultChain, "balanceOfBatch")>>,
                      [called |-> TRUE, owners |-> total, token_ids |-> token_ids,
                       result |-> <<>>])
             ELSE out("continue", FALSE, FALSE, SomeInt(batch_balance(env.batch.value)),
                      net1 \o <<Call("rpc", DefaultChain, "balanceOfBatch")>>,
                      [called |-> TRUE, owners |-> total, token_ids |-> token_ids,
                       result |-> env.batch.value])
        ELSE IF ~env.balance.some
             THEN out("raised", FALSE, FALSE, NoInt,
                      net1 \o <<Call("rpc", DefaultChain, "balanceOf")>>, NoBatch)
             ELSE out("continue", FALSE, FALSE, env.balance,
                      net1 \o <<Call("rpc", DefaultChain, "balanceOf")>>, NoBatch)

\* The entries curated.json can hold for the contract at position i.
MetadataAt(i) ==
    [key : {[id |-> i, form |-> "lower"]}, symbol : {"X"}, name : {"Foo"},
     fetch_batch : {"absent", "false"}, total_supply : {NoInt}]
    \cup
    [key : {[id |-> i, form |-> "lower"]}, symbol : {"X"}, name : {"Foo"},
     fetch_batch : {"true"},
     total_supply : {NoInt} \cup {SomeInt(n) : n \in 0..MaxSupply}]

RECURSIVE CuratedLists(_)
CuratedLists(n) ==
    IF n = 0 THEN {<<>>}
    ELSE {Append(l, m) : l \in CuratedLists(n - 1), m \in MetadataAt(n)}

NoLast == [index |-> 0, status |-> "none", skipped |-> FALSE, caught |-> FALSE,
           balance |-> NoInt, net |-> <<>>, batch |-> NoBatch, resolved |-> "none",
           address |-> QueryKey]

AllCached == [a \in CkAddresses |-> AbiA]

InitAgg ==
    /\ files \in {NoFiles, AllCached}
    /\ ret = IdleRet
    /\ pc = IdlePc
    /\ local = IdleLocal
    /\ req = IdleReq
    /\ qres = IdleQres
    /\ \E n \in 1..NumContracts, include_batch \in BOOLEAN :
        \E curated \in CuratedLists(n) :
            agg = [status |-> "called",
                   wallet_arg |-> [id |-> 1, form |-> "lower"],
                   wallet |-> [id |-> 1, form |-> "lower"],
                   include_batch |-> include_batch, curated |-> curated,
                   idx |-> 1, holdings |-> <<>>, computed |-> <<>>, last |-> NoLast]

\* lines 196-199: checksum the wallet, holdings = [], load the curated contracts
AggStart ==
    /\ agg.status = "called"
    /\ agg' = [agg EXCEPT !.status = "running",
                          !.wallet = checksum_address(agg.wallet_arg, DefaultChain).value,
                          !.holdings = <<>>]
    /\ UNCHANGED <<files, ret, pc, local, req, qres>>

AggResponses(fs, m) ==
    IF Truthy(fetch_contract_abi(fs, ToChecksumAddress(m.key)))
    THEN {NotCalled}
    ELSE {AbiA, ErrMsg, None, TransportError}

AggBalances(m, include_batch) ==
    IF is_fetch_batch(m) THEN {NoInt} ELSE {NoInt} \cup {SomeInt(b) : b \in 0..MaxBalance}

AggBatches(m, include_batch) ==
    IF is_fetch_batch(m) /\ include_batch /\ m.total_supply.some
    THEN {[ok |-> FALSE, value |-> <<>>]}
         \cup {[ok |-> TRUE, value |-> v] : v \in [1..m.total_supply.v -> 0..MaxBalance]}
    ELSE {[ok |-> FALSE, value |-> <<>>]}

\* lines 200-224: the loop body for the contract at agg.idx
AggStep ==
    /\ agg.status = "running"
    /\ agg.idx <= Len(agg.curated)
    /\ LET m == agg.curated[agg.idx]
       IN  \E response \in AggResponses(files, m),
              balance \in AggBalances(m, agg.include_batch),
              batch \in AggBatches(m, agg.include_batch) :
            LET r == loop_body(files, agg.wallet, agg.include_batch, m,
                               [response |-> response, balance |-> balance,
                                batch |-> batch])
                last == [index |-> agg.idx, status |-> r.status, skipped |-> r.skipped,
                         caught |-> r.caught, balance |-> r.balance, net |-> r.net,
                         batch |-> r.batch, resolved |-> r.resolved,
                         address |-> r.address]
            IN  /\ files' = r.files
                /\ agg' = [agg EXCEPT
                             !.status = IF r.status = "raised" THEN "raised" ELSE "running",
                             !.idx = IF r.status = "raised" THEN @ ELSE @ + 1,
                             !.computed = Append(@, r.balance),
                             !.holdings =
                                 IF r.balance.some /\ produces_holding(r.balance.v)
                                 THEN Append(@, holding(m, r.balance.v, r.address))
                                 ELSE @,
                             !.last = last]
    /\ UNCHANGED <<ret, pc, local, req, qres>>

\* line 226: return holdings
AggReturn ==
    /\ agg.status = "running"
    /\ agg.idx > Len(agg.curated)
    /\ agg' = [agg EXCEPT !.status = "returned"]
    /\ UNCHANGED <<files, ret, pc, local, req, qres>>

NextAgg == AggStart \/ AggStep \/ AggReturn

SpecAgg == InitAgg /\ [][NextAgg]_vars

IsNetwork(call) == call.kind \in {"explorer", "rpc"}

\* C3: a fetch_batch contract with include_batch = false is skipped without any
\* network call, whether or not its ABI is cached.
C3_SkippedBatchNoNetwork ==
    (agg.status # "idle" /\ agg.last.index > 0
        /\ is_fetch_batch(agg.curated[agg.last.index]) /\ ~agg.include_batch)
    => \A i \in 1..Len(agg.last.net) : ~IsNetwork(agg.last.net[i])

\* The holdings the claim expects from the balances computed so far.
RECURSIVE ExpectedHoldings(_, _, _)
ExpectedHoldings(curated, computed, n) ==
    IF n = 0 THEN <<>>
    ELSE LET rest == ExpectedHoldings(curated, computed, n - 1)
         IN  IF computed[n].some /\ computed[n].v > 0
             THEN Append(rest, [metadata |-> curated[n], balance |-> computed[n].v,
                                symbol |-> curated[n].symbol, name |-> curated[n].name,
                                address |-> ToChecksumAddress(curated[n].key)])
             ELSE rest

\* C4: on return the result is the subsequence of the input contracts whose computed
\* balance is strictly positive, one Holding each, in input order; no Holding ever
\* has balance 0.
C4_PositiveBalancesInOrder ==
    /\ agg.status = "returned" =>
         /\ Len(agg.computed) = Len(agg.curated)
         /\ agg.holdings = ExpectedHoldings(agg.curated, agg.computed, Len(agg.curated))
    /\ agg.status # "idle" =>
         \A i \in 1..Len(agg.holdings) : agg.holdings[i].balance > 0

\* A returned call over two or more contracts, one with balance 0 and one held.
C4_Witness ==
    /\ agg.status = "returned"
    /\ Len(agg.curated) >= 2
    /\ \E i \in 1..Len(agg.computed) : agg.computed[i] = SomeInt(0)
    /\ Len(agg.holdings) >= 1
    /\ Len(agg.holdings) < Len(agg.curated)

\* C5: with include_batch = true, a failure while processing a fetch_batch contract
\* (resolving its handle, a missing total_supply, a failing balanceOfBatch) gives
\* balance 0 and never aborts the aggregation.
C5_BatchFailureDegrades ==
    (agg.status # "idle" /\ agg.last.index > 0 /\ agg.include_batch
        /\ is_fetch_batch(agg.curated[agg.last.index])
        /\ (agg.last.resolved # "ok" \/ agg.last.caught))
    => (agg.status # "raised" /\ agg.last.balance = SomeInt(0))

\* C6: the batch query asks for ids 0..total_supply-1 with the wallet repeated once
\* per id, and the balance is the number of non-zero positions of the returned list.
C6_BatchCountsNonZero ==
    (agg.status # "idle" /\ agg.last.index > 0 /\ agg.last.batch.called
        /\ ~agg.last.caught)
    => LET n == agg.curated[agg.last.index].total_supply.v
           result == agg.last.batch.result
       IN  /\ agg.last.batch.token_ids = [i \in 1..n |-> i - 1]
           /\ agg.last.batch.owners = [i \in 1..n |-> agg.wallet]
           /\ agg.last.balance =
                SomeInt(Cardinality({i \in 1..Len(result) : result[i] # 0}))

====
